---- MODULE Spec2Model ----
(***************************************************************************)
(* Model of the portfolio application in app.py: the Account and Project   *)
(* tables, the upload directory, the login session and the HTTP handlers.  *)
(*                                                                         *)
(* Text is a sequence of one-character strings, so that strip(), rsplit(), *)
(* lower(), the f-strings and the JSON encoding are computed character by  *)
(* character.  Characters outside ASCII and control characters are single  *)
(* tokens: "U+00E9" (e acute), "U+2014" (em dash), "\n", "\t", "\r", "\f". *)
(***************************************************************************)
EXTENDS Integers, Sequences, FiniteSets, TLC

VARIABLES users, projects, uploads, current_user, last

vars == <<users, projects, uploads, current_user, last>>

-----------------------------------------------------------------------------
(* Bounds *)

\* Rows in the user table.
MaxUsers == 2

\* Rows in the project table.
MaxProjects == 1

\* Rows of the certification editor in one profile form.
MaxCertRows == 2

\* Length of a raw certifications_data text drawn from RawAlphabet.
MaxRawLen == 3

-----------------------------------------------------------------------------
(* Python values *)

\* Python's None where a text is expected (request.form.get of a missing field,
\* a NULL column).
None == <<"None">>

\* Truthiness of a text-or-None value: None and '' are falsy.
Truthy(v) == v # None /\ v # <<>>

Ch(s, i) == IF i \in 1..Len(s) THEN s[i] ELSE "EOF"

RECURSIVE Concat(_)
Concat(ss) == IF ss = <<>> THEN <<>> ELSE Head(ss) \o Concat(Tail(ss))

\* Objects json handles: every value has the same three fields.
PyNone == [t |-> "none", s |-> <<>>, items |-> <<>>]
PyBool(b) == [t |-> "bool", s |-> IF b THEN <<"1">> ELSE <<>>, items |-> <<>>]
PyNum(digits) == [t |-> "num", s |-> digits, items |-> <<>>]
PyFloat(text) == [t |-> "float", s |-> text, items |-> <<>>]
PyStr(s) == [t |-> "str", s |-> s, items |-> <<>>]
PyList(xs) == [t |-> "list", s |-> <<>>, items |-> xs]
PyPair(k, v) == [t |-> "pair", s |-> k, items |-> <<v>>]
PyDict(pairs) == [t |-> "dict", s |-> <<>>, items |-> pairs]

\* bool(x) of such an object.
PyTruthy(v) ==
    CASE v.t = "none" -> FALSE
      [] v.t = "bool" -> v.s # <<>>
      [] v.t = "num" -> \E i \in 1..Len(v.s) : v.s[i] \notin {"0", "-"}
      [] v.t = "float" ->
            \/ v.s[Len(v.s)] \in {"N", "y"}
            \/ \E i \in 1..Len(v.s) :
                   /\ v.s[i] \in {"1", "2", "3", "4", "5", "6", "7", "8", "9"}
                   /\ \A j \in 1..(i - 1) : v.s[j] \notin {"e", "E"}
      [] v.t = "str" -> v.s # <<>>
      [] OTHER -> v.items # <<>>

\* d[k] = v on an insertion-ordered dict.
RECURSIVE DictSet(_, _, _)
DictSet(pairs, k, v) ==
    IF pairs = <<>> THEN <<PyPair(k, v)>>
    ELSE IF Head(pairs).s = k THEN <<PyPair(k, v)>> \o Tail(pairs)
    ELSE <<Head(pairs)>> \o DictSet(Tail(pairs), k, v)

HasKey(d, k) == \E i \in 1..Len(d.items) : d.items[i].s = k

\* dict.get(k, default)
DictGet(d, k, default) ==
    IF HasKey(d, k)
    THEN (d.items[CHOOSE i \in 1..Len(d.items) : d.items[i].s = k]).items[1]
    ELSE default

-----------------------------------------------------------------------------
(* str.strip() *)

Whitespace == {" ", "\t", "\n", "\r", "\f"}

RECURSIVE LStrip(_)
LStrip(s) == IF s # <<>> /\ Head(s) \in Whitespace THEN LStrip(Tail(s)) ELSE s

RECURSIVE RStrip(_)
RStrip(s) ==
    IF s # <<>> /\ s[Len(s)] \in Whitespace THEN RStrip(SubSeq(s, 1, Len(s) - 1)) ELSE s

Strip(s) == RStrip(LStrip(s))

-----------------------------------------------------------------------------
(* json.dumps with the default separators and ensure_ascii *)

EscapeChar(c) ==
    CASE c = "\"" -> <<"\\", "\"">>
      [] c = "\\" -> <<"\\", "\\">>
      [] c = "\n" -> <<"\\", "n">>
      [] c = "\r" -> <<"\\", "r">>
      [] c = "\t" -> <<"\\", "t">>
      [] c = "\f" -> <<"\\", "f">>
      [] c = "U+00E9" -> <<"\\", "u", "0", "0", "e", "9">>
      [] c = "U+2014" -> <<"\\", "u", "2", "0", "1", "4">>
      [] OTHER -> <<c>>

EncodeStr(s) ==
    <<"\"">> \o Concat([i \in 1..Len(s) |-> EscapeChar(s[i])]) \o <<"\"">>

RECURSIVE Join(_, _)
Join(parts, sep) ==
    IF parts = <<>> THEN <<>>
    ELSE IF Len(parts) = 1 THEN parts[1]
    ELSE parts[1] \o sep \o Join(Tail(parts), sep)

RECURSIVE Dumps(_)
Dumps(v) ==
    CASE v.t = "none" -> <<"n", "u", "l", "l">>
      [] v.t = "bool" -> IF v.s # <<>> THEN <<"t", "r", "u", "e">>
                                         ELSE <<"f", "a", "l", "s", "e">>
      [] v.t \in {"num", "float"} -> v.s
      [] v.t = "str" -> EncodeStr(v.s)
      [] v.t = "list" ->
            <<"[">> \o Join([i \in 1..Len(v.items) |-> Dumps(v.items[i])], <<",", " ">>)
                    \o <<"]">>
      [] v.t = "dict" ->
            <<"{">> \o Join([i \in 1..Len(v.items) |->
                               EncodeStr(v.items[i].s) \o <<":", " ">>
                                   \o Dumps(v.items[i].items[1])],
                            <<",", " ">>)
                    \o <<"}">>

-----------------------------------------------------------------------------
(* json.loads: the scanner of json.decoder / json.scanner.  A number keeps  *)
(* the text it was scanned from; the integer -0 is 0.  A float keeps its   *)
(* text too: its repr is not computed, and it is 0.0 when its mantissa is  *)
(* (underflow, as of 1e-999, is not modelled).                             *)

JsonWS == {" ", "\t", "\n", "\r"}

Digits == {"0", "1", "2", "3", "4", "5", "6", "7", "8", "9"}

HexDigits == Digits \cup {"a", "b", "c", "d", "e", "f", "A", "B", "C", "D", "E", "F"}

ControlChars == {"\n", "\t", "\r", "\f"}

ParseFail == [ok |-> FALSE, val |-> PyNone, pos |-> 0]

ParseOk(v, p) == [ok |-> TRUE, val |-> v, pos |-> p]

RECURSIVE SkipWS(_, _)
SkipWS(s, i) == IF Ch(s, i) \in JsonWS THEN SkipWS(s, i + 1) ELSE i

\* The character a backslash escape stands for, "" if the escape is invalid.
Unescape(c) ==
    CASE c = "\"" -> "\""
      [] c = "\\" -> "\\"
      [] c = "/" -> "/"
      [] c = "n" -> "\n"
      [] c = "r" -> "\r"
      [] c = "t" -> "\t"
      [] c = "f" -> "\f"
      [] c = "b" -> "U+0008"
      [] OTHER -> ""

\* The code point of \uXXXX.
CodePoint(h) ==
    CASE h = <<"0", "0", "e", "9">> \/ h = <<"0", "0", "E", "9">> -> "U+00E9"
      [] h = <<"2", "0", "1", "4">> -> "U+2014"
      [] h = <<"0", "0", "0", "a">> \/ h = <<"0", "0", "0", "A">> -> "\n"
      [] OTHER -> "U+XXXX"

\* py_scanstring (strict): s[i] is the first character after the opening quote.
RECURSIVE ScanString(_, _, _)
ScanString(s, i, acc) ==
    LET c == Ch(s, i) IN
    IF c = "EOF" THEN ParseFail
    ELSE IF c = "\"" THEN ParseOk(PyStr(acc), i + 1)
    ELSE IF c \in ControlChars THEN ParseFail
    ELSE IF c # "\\" THEN ScanString(s, i + 1, Append(acc, c))
    ELSE LET e == Ch(s, i + 1) IN
         IF e = "EOF" THEN ParseFail
         ELSE IF e = "u"
              THEN IF i + 5 <= Len(s) /\ \A k \in 2..5 : s[i + k] \in HexDigits
                   THEN ScanString(s, i + 6,
                                   Append(acc, CodePoint(SubSeq(s, i + 2, i + 5))))
                   ELSE ParseFail
              ELSE IF Unescape(e) = "" THEN ParseFail
                   ELSE ScanString(s, i + 2, Append(acc, Unescape(e)))

RECURSIVE ScanDigits(_, _)
ScanDigits(s, i) == IF Ch(s, i) \in Digits THEN ScanDigits(s, i + 1) ELSE i

\* NUMBER_RE: (-?(?:0|[1-9][0-9]*))(\.[0-9]+)?([eE][-+]?[0-9]+)?
ScanNumber(s, i) ==
    LET j == IF Ch(s, i) = "-" THEN i + 1 ELSE i
        e == IF Ch(s, j) = "0" THEN j + 1 ELSE ScanDigits(s, j)
        f == IF Ch(s, e) = "." /\ ScanDigits(s, e + 1) > e + 1
             THEN ScanDigits(s, e + 1) ELSE e
        x == IF Ch(s, f) \in {"e", "E"}
             THEN LET d == IF Ch(s, f + 1) \in {"-", "+"} THEN f + 2 ELSE f + 1 IN
                  IF ScanDigits(s, d) > d THEN ScanDigits(s, d) ELSE f
             ELSE f
    IN IF e = j THEN ParseFail
       ELSE IF x > e THEN ParseOk(PyFloat(SubSeq(s, i, x - 1)), x)
       ELSE IF SubSeq(s, i, e - 1) = <<"-", "0">> THEN ParseOk(PyNum(<<"0">>), e)
       ELSE ParseOk(PyNum(SubSeq(s, i, e - 1)), e)

Literal(s, i, word) == i + Len(word) - 1 <= Len(s) /\ SubSeq(s, i, i + Len(word) - 1) = word

RECURSIVE ScanOnce(_, _), ScanArray(_, _, _), ScanObject(_, _, _)

\* _scan_once
ScanOnce(s, i) ==
    LET c == Ch(s, i) IN
    CASE c = "EOF" -> ParseFail
      [] c = "\"" -> ScanString(s, i + 1, <<>>)
      [] c = "{" ->
            \* JSONObject: an empty object, or the first key's opening quote
            LET j == SkipWS(s, i + 1) IN
            IF Ch(s, j) = "}" THEN ParseOk(PyDict(<<>>), j + 1)
            ELSE IF Ch(s, j) # "\"" THEN ParseFail
            ELSE ScanObject(s, j + 1, <<>>)
      [] c = "[" ->
            LET j == SkipWS(s, i + 1) IN
            IF Ch(s, j) = "]" THEN ParseOk(PyList(<<>>), j + 1)
            ELSE ScanArray(s, j, <<>>)
      [] c = "n" /\ Literal(s, i, <<"n", "u", "l", "l">>) -> ParseOk(PyNone, i + 4)
      [] c = "t" /\ Literal(s, i, <<"t", "r", "u", "e">>) -> ParseOk(PyBool(TRUE), i + 4)
      [] c = "f" /\ Literal(s, i, <<"f", "a", "l", "s", "e">>) ->
            ParseOk(PyBool(FALSE), i + 5)
      [] c = "N" /\ Literal(s, i, <<"N", "a", "N">>) ->
            ParseOk(PyFloat(<<"N", "a", "N">>), i + 3)
      [] c = "I" /\ Literal(s, i, <<"I", "n", "f", "i", "n", "i", "t", "y">>) ->
            ParseOk(PyFloat(<<"I", "n", "f", "i", "n", "i", "t", "y">>), i + 8)
      [] c = "-" /\ Literal(s, i, <<"-", "I", "n", "f", "i", "n", "i", "t", "y">>) ->
            ParseOk(PyFloat(<<"-", "I", "n", "f", "i", "n", "i", "t", "y">>), i + 9)
      [] OTHER -> ScanNumber(s, i)

\* JSONArray's loop: s[i] starts the next element.
ScanArray(s, i, acc) ==
    LET r == ScanOnce(s, i) IN
    IF ~r.ok THEN ParseFail
    ELSE LET j == SkipWS(s, r.pos) IN
         IF Ch(s, j) = "]" THEN ParseOk(PyList(Append(acc, r.val)), j + 1)
         ELSE IF Ch(s, j) # "," THEN ParseFail
         ELSE ScanArray(s, SkipWS(s, j + 1), Append(acc, r.val))

\* JSONObject's loop: s[i] is the first character of a key, after its quote.
ScanObject(s, i, acc) ==
    LET k == ScanString(s, i, <<>>) IN
    IF ~k.ok THEN ParseFail
    ELSE LET c == SkipWS(s, k.pos) IN
         IF Ch(s, c) # ":" THEN ParseFail
         ELSE LET r == ScanOnce(s, SkipWS(s, c + 1)) IN
              IF ~r.ok THEN ParseFail
              ELSE LET j == SkipWS(s, r.pos)
                       acc2 == DictSet(acc, k.val.s, r.val)
                   IN IF Ch(s, j) = "}" THEN ParseOk(PyDict(acc2), j + 1)
                      ELSE IF Ch(s, j) # "," THEN ParseFail
                      ELSE LET q == SkipWS(s, j + 1) IN
                           IF Ch(s, q) # "\"" THEN ParseFail
                           ELSE ScanObject(s, q + 1, acc2)

\* JSONDecoder.decode: one value between optional whitespace, nothing after it.
Loads(s) ==
    LET r == ScanOnce(s, SkipWS(s, 1)) IN
    IF r.ok /\ SkipWS(s, r.pos) = Len(s) + 1 THEN r ELSE ParseFail

-----------------------------------------------------------------------------
(* User.certifications *)

\* The getter: [] for a falsy column, json.loads else, [] when it raises.
certifications(certifications_data) ==
    IF ~Truthy(certifications_data) THEN PyList(<<>>)
    ELSE LET r == Loads(certifications_data) IN
         IF r.ok THEN r.val ELSE PyList(<<>>)

\* The setter: the column's new value.
certifications_set(value) == Dumps(value)

-----------------------------------------------------------------------------
(* The relational store.  users is the user table in id order (ids 1, 2,   *)
(* ...: no handler deletes an account); projects is the set of project     *)
(* rows; uploads maps each file name under static/uploads to the name the  *)
(* client gave the file saved there.  Project.date_posted is left out: no  *)
(* handler reads it.                                                       *)

EmptyList == <<"[", "]">>

\* User(username=..., email=..., password=...): the other columns are NULL,
\* certifications_data takes its column default '[]'.
User(username, email, password) ==
    [username |-> username, email |-> email, password |-> password,
     tagline |-> None, bio |-> None, course |-> None, faction |-> None,
     avatar_url |-> None, status |-> None, skills |-> None, public_email |-> None,
     linkedin |-> None, github |-> None, certifications_data |-> EmptyList]

Project(id, title, description, image_file, user_id) ==
    [id |-> id, title |-> title, description |-> description,
     image_file |-> image_file, user_id |-> user_id]

\* Mutant: the username column is not declared unique.
IntegrityError_username_not_unique(tbl) ==
    IF \E i \in 1..Len(tbl) : tbl[i].username = None
    THEN "NOT NULL constraint failed: user.username"
    ELSE IF \E i, j \in 1..Len(tbl) : i # j /\ tbl[i].email = tbl[j].email
    THEN "UNIQUE constraint failed: user.email"
    ELSE ""

\* The constraint the user table refuses a flush for ("" when it accepts):
\* nullable=False on username, email, password; unique=True on username, email.
IntegrityError(tbl) ==
    IF \E i \in 1..Len(tbl) : tbl[i].username = None
    THEN "NOT NULL constraint failed: user.username"
    ELSE IF \E i \in 1..Len(tbl) : tbl[i].email = None
    THEN "NOT NULL constraint failed: user.email"
    ELSE IF \E i \in 1..Len(tbl) : tbl[i].password = None
    THEN "NOT NULL constraint failed: user.password"
    ELSE IF \E i, j \in 1..Len(tbl) : i # j /\ tbl[i].username = tbl[j].username
    THEN "UNIQUE constraint failed: user.username"
    ELSE IF \E i, j \in 1..Len(tbl) : i # j /\ tbl[i].email = tbl[j].email
    THEN "UNIQUE constraint failed: user.email"
    ELSE ""

\* db.session.commit() of the session's pending user table over the persisted
\* one: the flush is atomic, a refused one raises and persists nothing.
db_commit(persisted, pending) ==
    LET e == IntegrityError(pending) IN
    [ok |-> e = "", users |-> IF e = "" THEN pending ELSE persisted, error |-> e]

\* Mutant: no rollback; the pending changes that violate nothing are flushed
\* by the next commit.
db_rollback_missing(persisted, pending) ==
    [i \in 1..Len(pending) |->
        IF i \in 1..Len(persisted)
        THEN [pending[i] EXCEPT !.username = persisted[i].username]
        ELSE pending[i]]

\* db.session.rollback() after a commit that raised: the pending changes are
\* discarded, the table is the persisted one.
db_rollback(persisted, pending) == persisted

\* The id SQLite gives a new project row: one more than the largest in the table.
next_project_id(rows) ==
    IF rows = {} THEN 1
    ELSE (CHOOSE m \in {p.id : p \in rows} : \A p \in rows : p.id <= m) + 1

-----------------------------------------------------------------------------
(* flask_bcrypt.  The salt is left out: generate_password_hash is modelled *)
(* as one fixed one-way tagging of the password, and check_password_hash   *)
(* recomputes it.                                                          *)

generate_password_hash(password) == <<"$", "2", "b", "$">> \o password

check_password_hash(pw_hash, password) == pw_hash = generate_password_hash(password)

-----------------------------------------------------------------------------
(* Responses.  A response is the status, the template rendered or the      *)
(* endpoint redirected to, the message flashed, and for the PDF download   *)
(* the block sequence handed to doc.build.                                 *)

NoFlash == [category |-> "", message |-> "", cause |-> ""]

Flash(message, category) == [category |-> category, message |-> message, cause |-> ""]

FlashError(message, cause) == [category |-> "danger", message |-> message, cause |-> cause]

Render(template) ==
    [status |-> 200, target |-> template, flash |-> NoFlash, elements |-> <<>>]

RenderFlash(template, flash) ==
    [status |-> 200, target |-> template, flash |-> flash, elements |-> <<>>]

Redirect(endpoint, flash) ==
    [status |-> 302, target |-> endpoint, flash |-> flash, elements |-> <<>>]

Abort(status) == [status |-> status, target |-> "", flash |-> NoFlash, elements |-> <<>>]

\* @login_required for an anonymous client: login_manager.login_view.
Unauthorized == Redirect("login", Flash("Please log in to access this page.", "message"))

Request(op, method, req, resp) == [op |-> op, method |-> method, req |-> req, resp |-> resp]

NoRequest == Request("", "", <<>>, Abort(0))

-----------------------------------------------------------------------------
(* register, login, logout *)

\* Mutant: the query looks for the email only.
existing_user_by_email(tbl, email, username) ==
    \E i \in 1..Len(tbl) : tbl[i].email = email

\* User.query.filter((User.email == email) | (User.username == username)).first()
existing_user(tbl, email, username) ==
    \E i \in 1..Len(tbl) : tbl[i].email = email \/ tbl[i].username = username

\* POST /register.  MaxUsers bounds the table.
register(username, email, password) ==
    LET req == [username |-> username, email |-> email, password |-> password] IN
    /\ IF existing_user(users, email, username)
       THEN /\ users' = users
            /\ last' = Request("register", "POST", req,
                               Redirect("register",
                                        Flash("User or email already exists.", "danger")))
       ELSE LET hashed == generate_password_hash(password)
                c == db_commit(users, Append(users, User(username, email, hashed)))
            IN /\ Len(users) < MaxUsers
               /\ users' = c.users
               /\ last' = Request("register", "POST", req,
                                  IF c.ok
                                  THEN Redirect("login",
                                                Flash("Registration successful. Please login.",
                                                      "success"))
                                  ELSE Abort(500))
    /\ UNCHANGED <<projects, uploads, current_user>>

\* User.query.filter_by(email=email).first(): the id, 0 for no row.
user_by_email(tbl, email) ==
    IF \E i \in 1..Len(tbl) : tbl[i].email = email
    THEN CHOOSE i \in 1..Len(tbl) :
             tbl[i].email = email /\ \A j \in 1..(i - 1) : tbl[j].email # email
    ELSE 0

\* Mutant: the message tells a wrong password from an unknown email.
login_failure_telling(found) ==
    IF found THEN Flash("Wrong password.", "danger") ELSE Flash("Unknown email.", "danger")

\* The message login flashes when it logs nobody in, given whether the email
\* named an account.
login_failure(found) == Flash("Invalid credentials.", "danger")

\* POST /login on table tbl: the account logged in (0 for none) and the response.
login_result(tbl, email, pw) ==
    LET user == user_by_email(tbl, email) IN
    IF user # 0 /\ check_password_hash(tbl[user].password, pw)
    THEN [user |-> user,
          resp |-> Redirect("dashboard", Flash("Logged in successfully.", "success"))]
    ELSE [user |-> 0, resp |-> RenderFlash("login.html", login_failure(user # 0))]

login(email, pw) ==
    LET r == login_result(users, email, pw) IN
    /\ current_user' = IF r.user # 0 THEN r.user ELSE current_user
    /\ last' = Request("login", "POST", [email |-> email, password |-> pw], r.resp)
    /\ UNCHANGED <<users, projects, uploads>>

logout ==
    /\ current_user' = 0
    /\ last' = Request("logout", "GET", <<>>,
                       IF current_user = 0 THEN Unauthorized
                       ELSE Redirect("home", Flash("Logged out.", "info")))
    /\ UNCHANGED <<users, projects, uploads>>

-----------------------------------------------------------------------------
(* profile *)

KeyName == <<"n", "a", "m", "e">>

KeyIssuer == <<"i", "s", "s", "u", "e", "r">>

KeyDate == <<"d", "a", "t", "e">>

Certification(name, issuer, date) ==
    PyDict(<<PyPair(KeyName, PyStr(name)), PyPair(KeyIssuer, PyStr(issuer)),
             PyPair(KeyDate, PyStr(date))>>)

\* The loop over range(len(cert_names)), from index i on.
RECURSIVE new_certs_from(_, _, _, _)
new_certs_from(i, cert_names, cert_issuers, cert_dates) ==
    IF i > Len(cert_names) THEN <<>>
    ELSE (IF Strip(cert_names[i]) # <<>>
          THEN <<Certification(cert_names[i],
                               IF i <= Len(cert_issuers) THEN cert_issuers[i] ELSE <<>>,
                               IF i <= Len(cert_dates) THEN cert_dates[i] ELSE <<>>)>>
          ELSE <<>>)
         \o new_certs_from(i + 1, cert_names, cert_issuers, cert_dates)

\* Mutant: zip(cert_names, cert_issuers, cert_dates), which stops at the
\* shortest list.
new_certs_zipped(cert_names, cert_issuers, cert_dates) ==
    LET n == CHOOSE k \in {Len(cert_names), Len(cert_issuers), Len(cert_dates)} :
                 k <= Len(cert_names) /\ k <= Len(cert_issuers) /\ k <= Len(cert_dates)
    IN PyList(new_certs_from(1, SubSeq(cert_names, 1, n), cert_issuers, cert_dates))

new_certs(cert_names, cert_issuers, cert_dates) ==
    PyList(new_certs_from(1, cert_names, cert_issuers, cert_dates))

\* Mutant: the new password is hashed whenever the field is in the form.
profile_password_unguarded(password, new_password) ==
    IF new_password # None THEN generate_password_hash(new_password) ELSE password

\* The password column after the update: hashed new_password when it is truthy.
profile_password(password, new_password) ==
    IF Truthy(new_password) THEN generate_password_hash(new_password) ELSE password

\* The assignments of POST /profile to current_user, before the commit.
profile_edit(row, form) ==
    [row EXCEPT !.username = form.username,
                !.tagline = form.tagline,
                !.bio = form.bio,
                !.avatar_url = form.avatar_url,
                !.status = form.status,
                !.course = form.course,
                !.faction = form.faction,
                !.skills = form.skills,
                !.public_email = form.public_email,
                !.linkedin = form.linkedin,
                !.github = form.github,
                !.password = profile_password(row.password, form.new_password),
                !.certifications_data =
                    certifications_set(new_certs(form.cert_name, form.cert_issuer,
                                                 form.cert_date))]

\* POST /profile
profile_post(form) ==
    /\ IF current_user = 0
       THEN /\ users' = users
            /\ last' = Request("profile", "POST", form, Unauthorized)
       ELSE LET pending == [users EXCEPT ![current_user] =
                                profile_edit(users[current_user], form)]
                c == db_commit(users, pending)
            IN /\ users' = IF c.ok THEN c.users ELSE db_rollback(users, pending)
               /\ last' = Request("profile", "POST", form,
                                  Redirect("profile",
                                           IF c.ok
                                           THEN Flash("Profile updated successfully!",
                                                      "success")
                                           ELSE FlashError("Error updating profile: ",
                                                           c.error)))
    /\ UNCHANGED <<projects, uploads, current_user>>

\* GET /profile: profile.html is rendered with user=current_user; elements holds
\* what user.certifications gives the template.
profile_get ==
    /\ last' = Request("profile", "GET", <<>>,
                       IF current_user = 0 THEN Unauthorized
                       ELSE [Render("profile.html") EXCEPT !.elements =
                                <<certifications(users[current_user].certifications_data)>>])
    /\ UNCHANGED <<users, projects, uploads, current_user>>

-----------------------------------------------------------------------------
(* Uploads *)

ALLOWED_EXTENSIONS == {<<"p", "n", "g">>, <<"j", "p", "g">>, <<"j", "p", "e", "g">>, <<"g", "i", "f">>}

UpperCase ==
    <<"A", "B", "C", "D", "E", "F", "G", "H", "I", "J", "K", "L", "M",
      "N", "O", "P", "Q", "R", "S", "T", "U", "V", "W", "X", "Y", "Z">>

LowerCase ==
    <<"a", "b", "c", "d", "e", "f", "g", "h", "i", "j", "k", "l", "m",
      "n", "o", "p", "q", "r", "s", "t", "u", "v", "w", "x", "y", "z">>

\* str.lower()
Lower(s) ==
    [i \in 1..Len(s) |->
        IF \E k \in 1..Len(UpperCase) : UpperCase[k] = s[i]
        THEN LowerCase[CHOOSE k \in 1..Len(UpperCase) : UpperCase[k] = s[i]]
        ELSE s[i]]

\* The index of the last c in s, 0 if there is none.
LastIndex(s, c) ==
    IF \E i \in 1..Len(s) : s[i] = c
    THEN CHOOSE i \in 1..Len(s) : s[i] = c /\ \A j \in (i + 1)..Len(s) : s[j] # c
    ELSE 0

\* filename.rsplit('.', 1)[1], for a filename that holds a '.'
rsplit_ext(filename) == SubSeq(filename, LastIndex(filename, ".") + 1, Len(filename))

allowed_file(filename) ==
    /\ LastIndex(filename, ".") # 0
    /\ Lower(rsplit_ext(filename)) \in ALLOWED_EXTENSIONS

\* os.path.splitext(p)[1]: from the last dot of the last path component on,
\* unless only dots precede it there.
splitext_ext(p) ==
    LET sep == LastIndex(p, "/")
        dot == LastIndex(p, ".")
    IN IF dot > sep /\ \E k \in (sep + 1)..(dot - 1) : p[k] # "."
       THEN SubSeq(p, dot, Len(p))
       ELSE <<>>

\* bool(file) of a FileStorage: whether it has a filename.
file_given(file) == file # None /\ file # <<>>

\* The name save_picture stores the file under, random_hex being token_hex(8).
picture_fn(filename, random_hex) == random_hex \o splitext_ext(filename)

\* The upload directory after form_picture.save(picture_path).
save_picture(dir, filename, random_hex) ==
    LET fn == picture_fn(filename, random_hex) IN
    {u \in dir : u.name # fn} \cup {[name |-> fn, orig |-> filename]}

-----------------------------------------------------------------------------
(* dashboard, projects, edit_project, delete_project *)

project_exists(id) == \E p \in projects : p.id = id

project_get(id) == CHOOSE p \in projects : p.id = id

\* Project.query.filter_by(user_id=...).all(), in id order.
RECURSIVE projects_of(_, _)
projects_of(rows, user_id) ==
    LET mine == {p \in rows : p.user_id = user_id} IN
    IF mine = {} THEN <<>>
    ELSE LET first == CHOOSE p \in mine : \A q \in mine : p.id <= q.id
         IN <<first>> \o projects_of(rows \ {first}, user_id)

home ==
    /\ last' = Request("home", "GET", <<>>, Render("home.html"))
    /\ UNCHANGED <<users, projects, uploads, current_user>>

dashboard ==
    /\ last' = Request("dashboard", "GET", <<>>,
                       IF current_user = 0 THEN Unauthorized
                       ELSE [Render("dashboard.html") EXCEPT !.elements =
                                projects_of(projects, current_user)])
    /\ UNCHANGED <<users, projects, uploads, current_user>>

\* GET /projects
projects_get ==
    /\ last' = Request("projects", "GET", <<>>,
                       IF current_user = 0 THEN Unauthorized
                       ELSE [Render("projects.html") EXCEPT !.elements =
                                projects_of(projects, current_user)])
    /\ UNCHANGED <<users, projects, uploads, current_user>>

\* POST /projects; file is None when the form has no image part (request.files
\* ['image'] is then a 400).  MaxProjects bounds the table.
projects_post(title, desc, file, random_hex) ==
    LET req == [title |-> title, image |-> file]
        save == file_given(file) /\ allowed_file(file)
        filename == IF save THEN picture_fn(file, random_hex) ELSE None
    IN
    /\ IF current_user = 0
       THEN /\ last' = Request("projects", "POST", req, Unauthorized)
            /\ UNCHANGED <<projects, uploads>>
       ELSE IF file = None
       THEN /\ last' = Request("projects", "POST", req, Abort(400))
            /\ UNCHANGED <<projects, uploads>>
       ELSE /\ Cardinality(projects) < MaxProjects
            /\ uploads' = IF save THEN save_picture(uploads, file, random_hex) ELSE uploads
            /\ projects' = projects \cup
                  {Project(next_project_id(projects), title, desc, filename, current_user)}
            /\ last' = Request("projects", "POST", req,
                               Redirect("projects", Flash("Project added.", "success")))
    /\ UNCHANGED <<users, current_user>>

\* Mutant: the owner is not checked.
access_denied_never(project, user_id) == FALSE

\* project.user_id != current_user.id
access_denied(project, user_id) == project.user_id # user_id

\* Whether edit_project stores the posted file: a file with a filename.
edit_saves(file) == file_given(file) /\ file # <<>>

\* GET or POST /projects/edit/<id>; file is None when the form has no image part.
edit_project(id, method, title, desc, file, random_hex) ==
    LET req == [id |-> id, title |-> title, image |-> file] IN
    /\ IF current_user = 0
       THEN /\ last' = Request("edit_project", method, req, Unauthorized)
            /\ UNCHANGED <<projects, uploads>>
       ELSE IF ~project_exists(id)
       THEN /\ last' = Request("edit_project", method, req, Abort(404))
            /\ UNCHANGED <<projects, uploads>>
       ELSE IF access_denied(project_get(id), current_user)
       THEN /\ last' = Request("edit_project", method, req,
                               Redirect("projects", Flash("Access denied.", "danger")))
            /\ UNCHANGED <<projects, uploads>>
       ELSE IF method = "POST"
       THEN LET project == project_get(id)
                edited == [project EXCEPT
                              !.title = title,
                              !.description = desc,
                              !.image_file = IF edit_saves(file)
                                             THEN picture_fn(file, random_hex)
                                             ELSE project.image_file]
            IN /\ uploads' = IF edit_saves(file)
                             THEN save_picture(uploads, file, random_hex)
                             ELSE uploads
               /\ projects' = (projects \ {project}) \cup {edited}
               /\ last' = Request("edit_project", method, req,
                                  Redirect("projects",
                                           Flash("Project updated.", "success")))
       ELSE /\ last' = Request("edit_project", method, req, Render("edit_project.html"))
            /\ UNCHANGED <<projects, uploads>>
    /\ UNCHANGED <<users, current_user>>

\* GET /projects/delete/<id>
delete_project(id) ==
    LET req == [id |-> id] IN
    /\ IF current_user = 0
       THEN /\ last' = Request("delete_project", "GET", req, Unauthorized)
            /\ projects' = projects
       ELSE IF ~project_exists(id)
       THEN /\ last' = Request("delete_project", "GET", req, Abort(404))
            /\ projects' = projects
       ELSE IF access_denied(project_get(id), current_user)
       THEN /\ last' = Request("delete_project", "GET", req,
                               Redirect("projects", Flash("Access denied.", "danger")))
            /\ projects' = projects
       ELSE /\ projects' = projects \ {project_get(id)}
            /\ last' = Request("delete_project", "GET", req,
                               Redirect("projects", Flash("Project deleted.", "info")))
    /\ UNCHANGED <<users, uploads, current_user>>

-----------------------------------------------------------------------------
(* str() and repr() of the objects an f-string may be handed *)

\* repr of a str: single quotes unless the text holds ' and no ".
ReprStr(s) ==
    LET q == IF (\E i \in 1..Len(s) : s[i] = "'") /\ ~(\E i \in 1..Len(s) : s[i] = "\"")
             THEN "\"" ELSE "'"
        esc(c) == CASE c = "\\" -> <<"\\", "\\">>
                    [] c = q /\ q = "'" -> <<"\\", "'">>
                    [] c = "\n" -> <<"\\", "n">>
                    [] c = "\r" -> <<"\\", "r">>
                    [] c = "\t" -> <<"\\", "t">>
                    [] c = "\f" -> <<"\\", "x", "0", "c">>
                    [] c = "U+0008" -> <<"\\", "x", "0", "8">>
                    [] OTHER -> <<c>>
    IN <<q>> \o Concat([i \in 1..Len(s) |-> esc(s[i])]) \o <<q>>

RECURSIVE Repr(_)
Repr(v) ==
    CASE v.t = "none" -> <<"N", "o", "n", "e">>
      [] v.t = "bool" -> IF v.s # <<>> THEN <<"T", "r", "u", "e">> ELSE <<"F", "a", "l", "s", "e">>
      [] v.t \in {"num", "float"} -> v.s
      [] v.t = "str" -> ReprStr(v.s)
      [] v.t = "list" ->
            <<"[">> \o Join([i \in 1..Len(v.items) |-> Repr(v.items[i])], <<",", " ">>)
                    \o <<"]">>
      [] v.t = "dict" ->
            <<"{">> \o Join([i \in 1..Len(v.items) |->
                               ReprStr(v.items[i].s) \o <<":", " ">>
                                   \o Repr(v.items[i].items[1])],
                            <<",", " ">>)
                    \o <<"}">>

\* {x} in an f-string, for an object and for a column value.
Format(v) == IF v.t = "str" THEN v.s ELSE Repr(v)

FormatText(v) == IF v = None THEN <<"N", "o", "n", "e">> ELSE v

-----------------------------------------------------------------------------
(* public_portfolio, download_portfolio *)

Paragraph(text, style) == [kind |-> "Paragraph", text |-> text, style |-> style]

Spacer(height) == [kind |-> "Spacer", text |-> <<>>, style |-> height]

\* User.query.filter_by(username=username).first(): the id, 0 for no row.
user_by_username(tbl, username) ==
    IF \E i \in 1..Len(tbl) : tbl[i].username = username
    THEN CHOOSE i \in 1..Len(tbl) :
             tbl[i].username = username /\ \A j \in 1..(i - 1) : tbl[j].username # username
    ELSE 0

\* What "for cert in user.certifications" iterates over: the items of a list, the
\* keys of a dict, the characters of a str; a TypeError for the rest.
Iterate(v) ==
    CASE v.t = "list" -> [ok |-> TRUE, items |-> v.items]
      [] v.t = "dict" -> [ok |-> TRUE,
                          items |-> [i \in 1..Len(v.items) |-> PyStr(v.items[i].s)]]
      [] v.t = "str" -> [ok |-> TRUE, items |-> [i \in 1..Len(v.s) |-> PyStr(<<v.s[i]>>)]]
      [] OTHER -> [ok |-> FALSE, items |-> <<>>]

\* The paragraph of one certification.
cert_line(cert) ==
    LET c_name == DictGet(cert, KeyName, PyStr(<<"C", "e", "r", "t", "i", "f", "i", "c", "a", "t", "i", "o", "n">>))
        c_issuer == DictGet(cert, KeyIssuer, PyStr(<<>>))
        c_date == DictGet(cert, KeyDate, PyStr(<<>>))
    IN Paragraph(<<"<", "b", ">">> \o Format(c_name) \o <<"<", "/", "b", ">", " ", "-", " ">> \o Format(c_issuer)
                     \o <<" ", "(">> \o Format(c_date) \o <<")">>,
                 "Normal")

\* Mutant: the heading is added without testing user.certifications.
cert_elements_unguarded(certs) ==
    [ok |-> TRUE,
     elements |-> <<Paragraph(<<"C", "e", "r", "t", "i", "f", "i", "c", "a", "t", "i", "o", "n", "s">>,
                              "Heading2")>>
                  \o [i \in 1..Len(certs.items) |-> cert_line(certs.items[i])]
                  \o <<Spacer("20")>>]

\* The certifications section of the PDF; ok is FALSE when building it raises
\* (iterating a non-iterable, or .get on an item that is no dict).
cert_elements(certs) ==
    IF ~PyTruthy(certs) THEN [ok |-> TRUE, elements |-> <<>>]
    ELSE LET it == Iterate(certs) IN
         IF ~it.ok \/ \E i \in 1..Len(it.items) : it.items[i].t # "dict"
         THEN [ok |-> FALSE, elements |-> <<>>]
         ELSE [ok |-> TRUE,
               elements |-> <<Paragraph(<<"C", "e", "r", "t", "i", "f", "i", "c", "a", "t", "i", "o", "n", "s">>, "Heading2")>>
                            \o [i \in 1..Len(it.items) |-> cert_line(it.items[i])]
                            \o <<Spacer("20")>>]

project_elements(p) ==
    <<Paragraph(<<"<", "b", ">">> \o FormatText(p.title) \o <<"<", "/", "b", ">">>, "Heading3")>>
    \o (IF Truthy(p.description) THEN <<Paragraph(p.description, "Normal")>> ELSE <<>>)
    \o <<Spacer("12")>>

\* The list handed to doc.build, for certifications that build.
portfolio_elements(user, certs, rows) ==
    <<Paragraph(FormatText(user.username) \o <<"'", "s", " ", "P", "o", "r", "t", "f", "o", "l", "i", "o">>, "Title"), Spacer("12")>>
    \o (IF Truthy(user.course)
        THEN <<Paragraph(<<"<", "b", ">", "C", "o", "u", "r", "s", "e", ":", "<", "/", "b", ">", " ">> \o user.course, "Normal")>> ELSE <<>>)
    \o (IF Truthy(user.tagline)
        THEN <<Paragraph(<<"<", "i", ">">> \o user.tagline \o <<"<", "/", "i", ">">>, "Normal")>> ELSE <<>>)
    \o (IF Truthy(user.public_email)
        THEN <<Paragraph(<<"<", "b", ">", "E", "m", "a", "i", "l", ":", "<", "/", "b", ">", " ">> \o user.public_email, "Normal")>> ELSE <<>>)
    \o <<Spacer("20")>>
    \o certs
    \o <<Paragraph(<<"P", "r", "o", "j", "e", "c", "t", "s">>, "Heading2")>>
    \o Concat([i \in 1..Len(rows) |-> project_elements(rows[i])])

\* GET /portfolio/<username>
public_portfolio(username) ==
    LET user == user_by_username(users, username) IN
    /\ last' = Request("public_portfolio", "GET", [username |-> username],
                       IF user = 0
                       THEN Redirect("home", Flash("User not found.", "danger"))
                       ELSE [Render("public_portfolio.html") EXCEPT !.elements =
                                <<certifications(users[user].certifications_data)>>])
    /\ UNCHANGED <<users, projects, uploads, current_user>>

\* GET /portfolio/<username>/download
download_portfolio(username) ==
    LET user == user_by_username(users, username)
        certs == cert_elements(certifications(users[user].certifications_data))
    IN
    /\ last' = Request("download_portfolio", "GET", [username |-> username],
                       IF user = 0 THEN Abort(404)
                       ELSE IF ~certs.ok THEN Abort(500)
                       ELSE [Render("application/pdf") EXCEPT !.elements =
                                portfolio_elements(users[user], certs.elements,
                                                   projects_of(projects, user))])
    /\ UNCHANGED <<users, projects, uploads, current_user>>

-----------------------------------------------------------------------------
(* Requests: the values the clients submit *)

Usernames == {<<"a", "l">>, <<"b", "o">>}

Emails == {<<"a", "@", "x">>, <<"b", "@", "x">>}

Passwords == {<<"p", "1">>, <<"p", "2">>}

\* A profile form: username, one text t for the free-text fields (each field gets
\* t and its own digit, or t itself when t is '' or missing), new_password, and
\* the three lists of the certification rows.
ProfileForm(username, t, new_password, cert_name, cert_issuer, cert_date) ==
    LET field(k) == IF Truthy(t) THEN t \o <<k>> ELSE t IN
    [username |-> username, tagline |-> field("1"), bio |-> field("2"),
     avatar_url |-> field("3"), status |-> field("4"), course |-> field("5"),
     faction |-> field("6"), skills |-> field("7"), public_email |-> field("8"),
     linkedin |-> field("9"), github |-> field("0"), new_password |-> new_password,
     cert_name |-> cert_name, cert_issuer |-> cert_issuer, cert_date |-> cert_date]

\* Forms of the account specification: any username or none; a new password, an
\* empty one or none; no text and no certification row, or texts and one row.
AccountForms ==
    {ProfileForm(u, c[1], p, c[2], c[3], c[4]) :
        u \in Usernames \cup {None},
        p \in {None, <<>>, <<"p", "2">>},
        c \in {<<None, <<>>, <<>>, <<>> >>,
               <<<<"x">>, <<<<"A", "W", "S">>>>, <<<<"A", "m", "a", "z", "o", "n">>>>,
                 <<<<"2", "0", "2", "4">>>> >>}}

\* Names of certification rows: empty, blank, plain, and one with padding and
\* characters json escapes.
CertNames == {<<>>, <<" ">>, <<"a">>, <<" ", "U+00E9", "\"", "\\", "\n", " ">>}

\* The issuer and date columns a form may carry: prefixes of these lists, so
\* they may be shorter than the name column.
CertIssuers == <<<<"i">>, <<"i">>, <<>>, <<"j">>>>

CertDates == <<<<"2", "4">>, <<"2", "4">>, <<"2", "5">>, <<>> >>

SeqsUpTo(S, n) == UNION {[1..k -> S] : k \in 0..n}

\* Forms of the certification specification.
CertForms ==
    {ProfileForm(<<"a", "l">>, <<"x">>, None, names,
                 SubSeq(CertIssuers, 1, i), SubSeq(CertDates, 1, MaxCertRows - i)) :
        names \in SeqsUpTo(CertNames, MaxCertRows), i \in 0..MaxCertRows}

\* Title and description of a project form.
ProjectTexts == {<<<<"T", "1">>, <<>> >>, <<<<"T", "2">>, <<"d">>>>}

\* The image part of a project form: none, no file chosen, and three file names.
Files == {None, <<>>, <<"p", ".", "J", "P", "G">>, <<"m", ".", "e", "x", "e">>, <<"r", "a", "w">>}

\* secrets.token_hex(8), shortened.
Tokens == {<<"0", "a">>}

ProjectIds == 1..MaxProjects

-----------------------------------------------------------------------------
(* Specifications *)

Empty ==
    /\ users = <<>>
    /\ projects = {}
    /\ uploads = {}
    /\ current_user = 0
    /\ last = NoRequest

Registered(username, email, password) ==
    User(username, email, generate_password_hash(password))

Register == \E u \in Usernames, e \in Emails, p \in Passwords : register(u, e, p)

Login == \E e \in Emails, p \in Passwords : login(e, p)

ProfilePost(forms) == \E f \in forms : profile_post(f)

ProjectsPost ==
    \E tx \in ProjectTexts, f \in Files, h \in Tokens : projects_post(tx[1], tx[2], f, h)

EditProject ==
    \E id \in ProjectIds :
        \/ edit_project(id, "GET", None, None, None, <<>>)
        \/ \E tx \in ProjectTexts, f \in Files, h \in Tokens :
               edit_project(id, "POST", tx[1], tx[2], f, h)

DeleteProject == \E id \in ProjectIds : delete_project(id)

PublicPortfolio == \E u \in Usernames : public_portfolio(u)

DownloadPortfolio == \E u \in Usernames : download_portfolio(u)

\* The accounts: registration, sessions and profile updates on an empty store.
Init == Empty

Next ==
    \/ home
    \/ Register
    \/ Login
    \/ logout
    \/ ProfilePost(AccountForms)
    \/ profile_get

Spec == Init /\ [][Next]_vars

\* The projects of two registered accounts.
InitProjects ==
    /\ users = <<Registered(<<"a", "l">>, <<"a", "@", "x">>, <<"p", "1">>), Registered(<<"b", "o">>, <<"b", "@", "x">>, <<"p", "1">>)>>
    /\ projects = {}
    /\ uploads = {}
    /\ current_user = 0
    /\ last = NoRequest

NextProjects ==
    \/ Login
    \/ logout
    \/ dashboard
    \/ projects_get
    \/ ProjectsPost
    \/ EditProject
    \/ DeleteProject

SpecProjects == InitProjects /\ [][NextProjects]_vars

\* The certification editor and the portfolio of one account, logged in.
InitCerts ==
    /\ users = <<Registered(<<"a", "l">>, <<"a", "@", "x">>, <<"p", "1">>)>>
    /\ projects = {Project(1, <<"T", "1">>, <<"d">>, None, 1)}
    /\ uploads = {}
    /\ current_user = 1
    /\ last = NoRequest

NextCerts ==
    \/ ProfilePost(CertForms)
    \/ profile_get
    \/ PublicPortfolio
    \/ DownloadPortfolio

SpecCerts == InitCerts /\ [][NextCerts]_vars

\* Characters of the raw texts.
RawAlphabet == {"[", "]", "{", "}", "\"", ":", ",", "0", "1", "a"}

\* Raw texts of the certifications_data column: NULL, every text of up to
\* MaxRawLen characters, and longer ones that parse.
RawTexts ==
    {None} \cup SeqsUpTo(RawAlphabet, MaxRawLen)
    \cup {<<"{", "\"", "a", "\"", ":", " ", "1", "}">>,
          <<"[", "{", "\"", "n", "a", "m", "e", "\"", ":", " ", "\"", "a", "\"", "}", "]">>,
          <<"[", "{", "}", ",", " ", "1", "]">>,
          <<" ", "[", " ", "]", " ">>,
          <<"n", "u", "l", "l">>,
          <<"\"", "a", "\"">>,
          <<"{", "}">>,
          <<"[", "[", "]", "]">>,
          certifications_set(new_certs(<<<<"a">>>>, <<<<"i">>>>, <<>>))}

\* The decoding of a stored certification text, whatever the text.
InitCodec ==
    /\ \E raw \in RawTexts :
           users = <<[Registered(<<"a", "l">>, <<"a", "@", "x">>, <<"p", "1">>) EXCEPT !.certifications_data = raw]>>
    /\ projects = {}
    /\ uploads = {}
    /\ current_user = 1
    /\ last = NoRequest

NextCodec ==
    \/ profile_get
    \/ PublicPortfolio
    \/ DownloadPortfolio

SpecCodec == InitCodec /\ [][NextCodec]_vars

-----------------------------------------------------------------------------
(* Properties *)

PostedProfile(r) == r.op = "profile" /\ r.method = "POST" /\ r.resp # Unauthorized

ProfileSaved(r) == PostedProfile(r) /\ r.resp.flash.category = "success"

ProfileRefused(r) == PostedProfile(r) /\ r.resp.flash.category = "danger"

\* C1: no two rows of the user table share a username, and no two share an
\* email, whatever registrations and profile updates were requested.
C1_UniqueAccounts ==
    \A i, j \in 1..Len(users) :
        i # j => users[i].username # users[j].username /\ users[i].email # users[j].email

\* A profile update has just submitted the username of another account.
C1_Witness ==
    /\ PostedProfile(last)
    /\ \E j \in 1..Len(users) : j # current_user /\ users[j].username = last.req.username

C2_Step ==
    (/\ last'.op = "register"
     /\ \E i \in 1..Len(users) :
            users[i].username = last'.req.username \/ users[i].email = last'.req.email)
    => /\ users' = users
       /\ last'.resp.flash.message = "User or email already exists."

\* C2: a POST /register whose username or email is that of a persisted account
\* leaves the user table as it was and flashes the 'already exists' message.
C2_RegisterConflict == [][C2_Step]_vars

\* A registration was refused for a taken username with an email nobody holds.
C2_Witness ==
    /\ last.op = "register"
    /\ last.resp.flash.message = "User or email already exists."
    /\ \E i \in 1..Len(users) : users[i].username = last.req.username
    /\ \A i \in 1..Len(users) : users[i].email # last.req.email

C3_Step ==
    (/\ last'.op \in {"edit_project", "delete_project"}
     /\ current_user # 0
     /\ \E p \in projects : p.id = last'.req.id /\ p.user_id # current_user)
    => /\ projects' = projects
       /\ uploads' = uploads
       /\ last'.resp.flash.message = "Access denied."
       /\ last'.resp.status # 404

\* C3: an edit (GET or POST) or a delete of an existing project by a logged-in
\* account that does not own it leaves the project table and the upload
\* directory as they were, and answers 'Access denied.', not 404.
C3_OwnershipEnforced == [][C3_Step]_vars

\* An edit posting a new title and an image was refused for a project of
\* another account.
C3_Witness ==
    /\ last.op = "edit_project"
    /\ last.method = "POST"
    /\ file_given(last.req.image)
    /\ last.resp.flash.message = "Access denied."
    /\ \E p \in projects :
           p.id = last.req.id /\ p.user_id # current_user /\ p.title # last.req.title

\* C4: no file whose name has no extension, or one outside png, jpg, jpeg, gif
\* (case-insensitively), is ever saved to the upload directory or named by a
\* project's image reference, on project create and on project edit.
C4_OnlyAllowedUploads ==
    /\ \A u \in uploads : allowed_file(u.orig)
    /\ \A p \in projects :
           p.image_file # None =>
               \E u \in uploads : u.name = p.image_file /\ allowed_file(u.orig)

\* The certification list a profile form asks for: the rows whose name holds a
\* character that is not whitespace, in order, a missing issuer or date as ''.
ExpectedCerts(names, issuers, dates) ==
    LET kept == SelectSeq([k \in 1..Len(names) |-> k],
                          LAMBDA k : \E c \in 1..Len(names[k]) :
                                         names[k][c] \notin Whitespace)
    IN PyList([m \in 1..Len(kept) |->
                 PyDict(<<PyPair(<<"n", "a", "m", "e">>, PyStr(names[kept[m]])),
                          PyPair(<<"i", "s", "s", "u", "e", "r">>,
                                 PyStr(IF kept[m] \in DOMAIN issuers
                                       THEN issuers[kept[m]] ELSE <<>>)),
                          PyPair(<<"d", "a", "t", "e">>,
                                 PyStr(IF kept[m] \in DOMAIN dates
                                       THEN dates[kept[m]] ELSE <<>>))>>)])

C5_Step ==
    PostedProfile(last') =>
        LET form == last'.req
            before == users[current_user]
            after == users'[current_user]
        IN \/ /\ last'.resp.flash = Flash("Profile updated successfully!", "success")
              /\ after.username = form.username
              /\ after.tagline = form.tagline
              /\ after.bio = form.bio
              /\ after.avatar_url = form.avatar_url
              /\ after.status = form.status
              /\ after.course = form.course
              /\ after.faction = form.faction
              /\ after.skills = form.skills
              /\ after.public_email = form.public_email
              /\ after.linkedin = form.linkedin
              /\ after.github = form.github
              /\ Truthy(form.new_password) =>
                     check_password_hash(after.password, form.new_password)
              /\ certifications(after.certifications_data)
                     = ExpectedCerts(form.cert_name, form.cert_issuer, form.cert_date)
           \/ /\ last'.resp.flash.category = "danger"
              /\ last'.resp.flash.message = "Error updating profile: "
              /\ last'.resp.flash.cause # ""
              /\ users' = users

\* C5: a POST /profile either persists every submitted field together with the
\* new certification list and flashes the success message, or leaves the user
\* table as it was before the request and flashes an error with its cause.
C5_ProfileAllOrNothing == [][C5_Step]_vars

\* An update whose commit was refused, submitted with texts and a
\* certification list that differ from the stored ones.
C5_Witness ==
    /\ ProfileRefused(last)
    /\ last.req.tagline # users[current_user].tagline
    /\ certifications(users[current_user].certifications_data)
           # ExpectedCerts(last.req.cert_name, last.req.cert_issuer, last.req.cert_date)

\* C6: after a profile update is saved, the certification list read back from
\* the account is the list of the submitted rows whose name is not blank, in
\* order, duplicates kept, a missing issuer or date as '', whatever the list was.
C6_CertificationsSaved ==
    ProfileSaved(last) =>
        certifications(users[current_user].certifications_data)
            = ExpectedCerts(last.req.cert_name, last.req.cert_issuer, last.req.cert_date)

\* A saved form with a blank row before a named one, fewer issuers than names,
\* and a name that is stored with its padding.
C6_Witness ==
    /\ ProfileSaved(last)
    /\ Len(last.req.cert_name) = 2
    /\ Strip(last.req.cert_name[1]) = <<>>
    /\ Strip(last.req.cert_name[2]) \notin {<<>>, last.req.cert_name[2]}
    /\ Len(last.req.cert_issuer) < 2
    /\ Len(certifications(users[current_user].certifications_data).items) = 1

\* A raw text that is the encoding of a certification list: it decodes to a
\* list of records with a text name, issuer and date.
IsCertificationList(v) ==
    /\ v.t = "list"
    /\ \A i \in 1..Len(v.items) :
           /\ v.items[i].t = "dict"
           /\ \A k \in {KeyName, KeyIssuer, KeyDate} :
                  HasKey(v.items[i], k) /\ DictGet(v.items[i], k, PyNone).t = "str"

WellFormed(raw) == Truthy(raw) /\ Loads(raw).ok /\ IsCertificationList(Loads(raw).val)

\* C7: for a stored text that is absent, empty or not the encoding of a
\* certification list, the certifications accessor gives the profile page and
\* the portfolio page the empty list, and the PDF export does not fail.
C7_DecodeFailsSafe ==
    /\ (last.op = "profile" /\ last.method = "GET" /\ last.resp.status = 200
            /\ ~WellFormed(users[current_user].certifications_data))
        => last.resp.elements = <<PyList(<<>>)>>
    /\ (last.op = "public_portfolio" /\ last.resp.status = 200
            /\ ~WellFormed(users[user_by_username(users, last.req.username)]
                                .certifications_data))
        => last.resp.elements = <<PyList(<<>>)>>
    /\ last.op = "download_portfolio" => last.resp.status # 500

C8_Step ==
    /\ \A i \in 1..Len(users') :
           /\ users'[i].password \notin Passwords \cup {None, <<>>}
           /\ \E p \in Passwords : users'[i].password = generate_password_hash(p)
    /\ (PostedProfile(last') /\ ~Truthy(last'.req.new_password)) =>
           /\ users'[current_user].password = users[current_user].password
           /\ \A p \in Passwords :
                  login_result(users, users[current_user].email, p).user = current_user
                  => login_result(users', users'[current_user].email, p).user
                         = current_user
    /\ (ProfileSaved(last') /\ Truthy(last'.req.new_password)) =>
           /\ users'[current_user].password # last'.req.new_password
           /\ users'[current_user].password
                  = generate_password_hash(last'.req.new_password)

\* C8: a profile update with an empty or missing new_password leaves the stored
\* hash as it was, and the password that logged in before still logs in; a
\* non-empty new_password is stored hashed, and no stored password is plaintext.
C8_PasswordKept == [][C8_Step]_vars

\* An update with an empty new_password was saved, and the account's
\* registration password still logs in.
C8_Witness ==
    /\ ProfileSaved(last)
    /\ last.req.new_password = <<>>
    /\ \E p \in Passwords :
           login_result(users, users[current_user].email, p).user = current_user

UnknownEmail == <<"z", "@", "x">>

\* C10: on any store, a login with a registered email and a wrong password and
\* a login with an unknown email get the same response and log nobody in.
C10_LoginFailuresAlike ==
    \A e1, e2 \in Emails \cup {UnknownEmail}, p1, p2 \in Passwords :
        (/\ user_by_email(users, e1) # 0
         /\ ~check_password_hash(users[user_by_email(users, e1)].password, p1)
         /\ user_by_email(users, e2) = 0)
        => /\ login_result(users, e1, p1).user = 0
           /\ login_result(users, e2, p2).user = 0
           /\ login_result(users, e1, p1).resp = login_result(users, e2, p2).resp
           /\ login_result(users, e1, p1).resp.flash.message = "Invalid credentials."

\* A login with a registered email and a wrong password has just failed, while
\* another email of the pool is unknown.
C10_Witness ==
    /\ last.op = "login"
    /\ last.resp.status = 200
    /\ user_by_email(users, last.req.email) # 0
    /\ \E e \in Emails : user_by_email(users, e) = 0

\* The text a paragraph shows: its markup without the bold tags.
RECURSIVE StripTags(_)
StripTags(text) ==
    IF text = <<>> THEN <<>>
    ELSE IF Len(text) >= 3 /\ SubSeq(text, 1, 3) = <<"<", "b", ">">>
    THEN StripTags(SubSeq(text, 4, Len(text)))
    ELSE IF Len(text) >= 4 /\ SubSeq(text, 1, 4) = <<"<", "/", "b", ">">>
    THEN StripTags(SubSeq(text, 5, Len(text)))
    ELSE <<Head(text)>> \o StripTags(Tail(text))

CertText(cert, key) == DictGet(cert, key, PyStr(<<>>)).s

\* The line shows "name -- issuer (date)", the dash an em dash.
LineWithEmDash(block, cert) ==
    StripTags(block.text)
        = CertText(cert, KeyName) \o <<" ", "U+2014", " ">> \o CertText(cert, KeyIssuer)
              \o <<" ", "(">> \o CertText(cert, KeyDate) \o <<")">>

\* The line is "<b>name</b> - issuer (date)", the dash a hyphen.
LineWithHyphen(block, cert) ==
    /\ block.text
        = <<"<", "b", ">">> \o CertText(cert, KeyName) \o <<"<", "/", "b", ">", " ", "-", " ">> \o CertText(cert, KeyIssuer)
              \o <<" ", "(">> \o CertText(cert, KeyDate) \o <<")">>
    /\ StripTags(block.text)
        = CertText(cert, KeyName) \o <<" ", "-", " ">> \o CertText(cert, KeyIssuer)
              \o <<" ", "(">> \o CertText(cert, KeyDate) \o <<")">>

\* The blocks of a PDF export: the Certifications heading is there exactly when
\* the account's certification list is not empty; then it is there once, the
\* next blocks are the lines of the certifications, one each and in stored
\* order, no further line follows them, and the Projects heading comes later.
PortfolioBlocks(Line(_, _)) ==
    (last.op = "download_portfolio" /\ last.resp.status = 200) =>
        LET els == last.resp.elements
            user == users[user_by_username(users, last.req.username)]
            certs == certifications(user.certifications_data).items
            n == Len(certs)
            H == {k \in DOMAIN els : els[k] = Paragraph(<<"C", "e", "r", "t", "i", "f", "i", "c", "a", "t", "i", "o", "n", "s">>, "Heading2")}
            P == {k \in DOMAIN els : els[k] = Paragraph(<<"P", "r", "o", "j", "e", "c", "t", "s">>, "Heading2")}
        IN /\ (H # {}) <=> (n > 0)
           /\ P # {}
           /\ \A h \in H :
                  /\ H = {h}
                  /\ h + n + 1 \in DOMAIN els
                  /\ \A m \in 1..n :
                         els[h + m].kind = "Paragraph" /\ Line(els[h + m], certs[m])
                  /\ els[h + n + 1].kind # "Paragraph"
                  /\ \A p \in P : p > h + n

\* C9 as stated: the heading is in the export exactly when the certification
\* list is not empty, followed by one line per certification in stored order,
\* each showing name, em dash, issuer and the date in parentheses, before the
\* Projects heading.
C9_AsStated == PortfolioBlocks(LineWithEmDash)

\* C9, amended: as stated, but each line is "<b>name</b> - issuer (date)": the
\* name in bold markup and a hyphen where the statement has an em dash.
C9_PortfolioCertifications == PortfolioBlocks(LineWithHyphen)

\* An export of an account with two certifications, one of them with no issuer
\* and no date.
C9_Witness ==
    /\ last.op = "download_portfolio"
    /\ last.resp.status = 200
    /\ LET certs == certifications(users[1].certifications_data).items IN
       /\ Len(certs) = 2
       /\ \E m \in 1..2 : CertText(certs[m], KeyIssuer) = <<>> /\ CertText(certs[m], KeyDate) = <<>>
       /\ \E m \in 1..2 : CertText(certs[m], KeyIssuer) # <<>>

====
